---- MODULE Spec2Model ----
(***************************************************************************)
(* Cuchi Tales (TinyWings): the game manager of                            *)
(* src/TinyWings/modules/GameManager.js, with the part of                  *)
(* TerrainGenerator.generateTerrain it relies on.                          *)
(*                                                                         *)
(* Lengths and positions are in world units, scales in hundredths          *)
(* (0.05 is 5), times in milliseconds.  An island is the object returned   *)
(* by generateTerrain; `id` is its identity (the order of creation), and   *)
(* `name` the number carried by mesh.name = 'Island k'.                    *)
(***************************************************************************)
EXTENDS Integers, Sequences, FiniteSets, TLC

VARIABLES
    settings,       \* the amounts the constructor took from its settings
                    \* argument, the argument (given), and whether it threw
    player,         \* player.body.position: [z, y], written by PlayerControls
    gameOver,       \* GameManager.gameOver
    score,          \* #score
    invisible,      \* #invisible
    invisibleTimeoutId,         \* #invisibleTimeoutId, 0 for undefined
    smallerEnemies,             \* #smallerEnemies
    smallerEnemiesTimeoutIds,   \* #smallerEnemiesTimeoutIds
    islandNumber,   \* #islandNumber
    playerIsland,   \* #playerIsland
    terrainObjects, \* #terrainObjects
    currentIsland,  \* #currentIsland
    nextIsland,     \* #nextIsland
    islandGroup,    \* ids of the island meshes that are children of #islandGroup
    world,          \* ids of the island bodies in the CANNON world, and its gravity
    timers,         \* the host's pending setTimeout callbacks, oldest first
    nextTimerId,    \* the handle the next setTimeout returns
    generated,      \* number of generateTerrain calls so far
    turn,           \* whose update the frame callback runs next
    last,           \* what the last step did (its cues, dispatches, ...)
    controls,       \* the fields of PlayerControls and its player's position
    tick,           \* what the last PlayerControls.update() saw and did
    generator       \* the TerrainGenerator, and the terrain it generated last

vars == <<settings, player, gameOver, score, invisible, invisibleTimeoutId,
          smallerEnemies, smallerEnemiesTimeoutIds, islandNumber, playerIsland,
          terrainObjects, currentIsland, nextIsland, islandGroup, world, timers,
          nextTimerId, generated, turn, last, controls, tick, generator>>

----------------------------------------------------------------------------
(* Bounds of the model *)

\* window advances explored by Spec (entities, collisions and timers)
MaxAdvances == 1
\* window advances explored by SpecStream (no entity is ever touched)
MaxAdvancesStream == 10
\* entities that can overlap the player's box in one update
MaxHits == 2
\* child meshes of each cloned model
ModelChildren == 2
\* how far (in z) an entity can be from the player and still touch its box
HitRange == 400

\* distances from the island's first vertex row of the rows objects are put
\* on (Math.random picks the vertex)
Offsets == <<950, 4750, 6000, 8000, 9000>>
\* the settings objects the game is constructed with
SettingsChoices ==
    { [terrainObjects |-> 1, cloudObjects |-> 1, enemyObjects |-> 1,
       scoreObjects |-> 2, powerupObjects |-> 2] }

\* What a specification explores: the number of window advances, the number of
\* objects that can touch the player in one update, the terrain lengths the
\* generator returns (20 key points, 450 to 530 apart), the distances the
\* player covers in one frame, the heights the controls leave it at, and the
\* powerup models Math.random draws
Play == [maxAdvances |-> MaxAdvances, maxHits |-> MaxHits,
         lengths |-> {10200}, steps |-> {3500}, heights |-> {0, -801},
         kinds |-> {"Pink", "Blue", "Green"}, settings |-> SettingsChoices]
FlyPlay == [maxAdvances |-> 0, maxHits |-> 0, lengths |-> {10200},
            steps |-> {3500}, heights |-> {0}, kinds |-> {"Pink"},
            settings |-> SettingsChoices]
\* (settings whose counts reach their floors and ceilings at different levels)
StreamSettings ==
    {[terrainObjects |-> 1, cloudObjects |-> 1, enemyObjects |-> 1,
      scoreObjects |-> 7, powerupObjects |-> 3],
     [terrainObjects |-> 1, cloudObjects |-> 1, enemyObjects |-> 33,
      scoreObjects |-> 25, powerupObjects |-> 6]}
StreamPlay == [maxAdvances |-> MaxAdvancesStream, maxHits |-> 0,
               lengths |-> {9200, 10200}, steps |-> {500, 3500},
               heights |-> {0}, kinds |-> {"Pink"},
               settings |-> StreamSettings]

----------------------------------------------------------------------------
(* Program constants *)

FirstStart      == 950      \* GameManager.js:253
AmplitudeBase   == 150      \* TerrainGenerator.js:580
AmplitudeStep   == 20       \* TerrainGenerator.js:580
EndLength       == 1000     \* GameManager.js:254, 258, 575 (the island end)
IslandGap       == 3000     \* GameManager.js:257, 574
Lookahead       == 400      \* GameManager.js:611
Trailing        == 400      \* GameManager.js:689
FallLimit       == -800     \* GameManager.js:626
InvisibleMs     == 10000    \* GameManager.js:509
ShrinkMs        == 6000     \* GameManager.js:528, 534
StrayHandle     == 6000     \* GameManager.js:538 (the number pushed as an id)
EnemyScale      == 5        \* GameManager.js:356
EnemySmall      == 3        \* GameManager.js:527
CloudScale      == 20       \* TerrainGenerator.js:790
CloudSmall      == 9        \* GameManager.js:533
ScoreScale      == 30       \* GameManager.js:400
PowerupScale    == 8        \* GameManager.js:439
AssetScale      == 50       \* TerrainGenerator.js:765
MaxIslandName   == 9        \* TerrainGenerator.js:502
EnemyStep       == 5        \* GameManager.js:336
EnemyCeiling    == 40       \* GameManager.js:336
ScoreStep       == 2        \* GameManager.js:376
ScoreFloor      == 5        \* GameManager.js:376
PowerupFloor    == 1        \* GameManager.js:420
AssetStep       == 4        \* GameManager.js:249, 614
AssetStepMax    == 90       \* GameManager.js:614
TickMs          == 2000     \* granularity of time in the model

Min(a, b) == IF a < b THEN a ELSE b
Max(a, b) == IF a > b THEN a ELSE b

\* #clamp = (number, min, max) => Math.min(Math.max(number, min), max)
clamp(number, min, max) == Min(Max(number, min), max)

----------------------------------------------------------------------------
(* Entities and islands *)

\* The row the k-th object of its kind is put on (one outcome of the random
\* vertex index)
RowOf(k) == Offsets[((k - 1) % Len(Offsets)) + 1]

\* a cloned model added to one of the island's groups; y is position.y
\* (local, along the length: length/2 at the first row)
Entity(seg, grp, n, kind, length, off, scale) ==
    [seg |-> seg, grp |-> grp, n |-> n, kind |-> kind,
     y |-> length \div 2 - off, scale |-> scale, children |-> ModelChildren]

\* TerrainGenerator.generateTerrain
generateTerrain(number, vegetationAmount, cloudAmount, id, length) ==
    LET name == IF number < 0 THEN 0
                ELSE IF number > MaxIslandName THEN MaxIslandName ELSE number
    IN [id |-> id, name |-> name, length |-> length,
        minRangeY |-> AmplitudeBase + AmplitudeStep * name,
        start |-> length \div 2, end |-> -(length \div 2),
        assets |-> [k \in 1..vegetationAmount |->
                      Entity(id, "Terrain Assets", k, "Asset", length,
                             RowOf(k), AssetScale)],
        clouds |-> [k \in 1..cloudAmount |->
                      Entity(id, "Clouds", k, "Cloud", length,
                             RowOf(k), CloudScale)],
        objects |-> <<>>]

\* the number of enemies without its ceiling
EnemyCountUnclamped(base, number) == base + EnemyStep * number

\* #generateEnemies: the number of enemies put on an island
EnemyCount(base, number) == clamp(base + EnemyStep * number, base, EnemyCeiling)

\* the number of score objects floored at 0
ScoreCountUnfloored(base, number) == clamp(base - ScoreStep * number, 0, base)

\* #generateScoreObjects
ScoreCount(base, number) == clamp(base - ScoreStep * number, ScoreFloor, base)

\* #generatePowerups
PowerupCount(base, number) == clamp(base - (number \div 2), PowerupFloor, base)

\* #populateIslandObjects: enemies, then score objects, then powerups are
\* appended to the island's Objects group; kinds[k] is the powerup model drawn
\* for the k-th powerup
populateIslandObjects(s, island, number, kinds) ==
    LET ne == EnemyCount(s.enemyObjects, number)
        ns == ScoreCount(s.scoreObjects, number)
        np == PowerupCount(s.powerupObjects, number)
        base == Len(island.objects)
        enemies == [k \in 1..ne |->
                      Entity(island.id, "Objects", base + k, "Enemy",
                             island.length, RowOf(k), EnemyScale)]
        scores  == [k \in 1..ns |->
                      Entity(island.id, "Objects", base + ne + k, "Score Object",
                             island.length, RowOf(k), ScoreScale)]
        powers  == [k \in 1..np |->
                      Entity(island.id, "Objects", base + ne + ns + k, kinds[k],
                             island.length, RowOf(k), PowerupScale)]
    IN [island EXCEPT !.objects = island.objects \o enemies \o scores \o powers]

\* an island placed without the length of its end
PlaceUncapped(island, start) ==
    [island EXCEPT !.start = start, !.end = start - island.length]

\* constructor 253-259, #generateNewIsland 574-576: terrain.start and
\* terrain.end of an island placed with its start at `start`
Place(island, start) ==
    [island EXCEPT !.start = start, !.end = start - (island.length + EndLength)]

\* the models Math.random can draw for the powerups of one island
KindChoices(s, kinds) == [1..s.powerupObjects -> kinds]

\* no island has been retired
NoRetired == [id |-> -1, mesh |-> "live", attached |-> 0, undisposed |-> 0]

\* what the last step was: the operation, and for update() whether the window
\* advanced, the objects that touched the player, those dispatched to
\* #collisionWith (in order), the cues played, the island it retired, and the
\* values before the call
NoStep == [op |-> "new", advanced |-> FALSE, hits |-> {}, dispatched |-> <<>>,
           collect |-> 0, impact |-> 0, gameover |-> 0, retired |-> NoRetired,
           pre |-> [score |-> 0, invisible |-> FALSE, gameOver |-> FALSE,
                    pending |-> 0]]

\* PlayerControls: lengths and velocities are in hundredths of a unit, angles
\* in rotate steps of 0.05 rad, times in milliseconds

\* #moveSpeed = 100
MoveSpeed == 10000
\* #gravity = -9.81
Gravity == -981
\* #playerMass = 10
PlayerMass == 10
\* #applyGravity: this.#playerWeight * 4
DescendFactor == 4
\* #movePlayerHorizontally: this.#moveVelocity.length() / 3
StrafeDivisor == 3
\* update: this.#isGrounded = ... <= 1 + this.#playerRadius
GroundedMargin == 100
\* rotateStep = 0.05, the unit of the angles
RotateStep == 1
\* #rotatePlayerOnGround: the step of the first ground impact, 100 rad
ImpactStep == 2000
\* constructor: the raycasters' far is #playerRadius + 5
RayFar == 500
\* the radius of the player's sphere times its scale
PlayerRadius == 1000
\* ticks of the controls explored once the game has started
MaxTicks == 3
\* the deltaTime of a tick, in milliseconds
DeltaTimeMs == 100
\* how far below the surface a ray can start, and the slope (in rotate
\* steps) of the faces the rays hit
Sunk == 100
Slope == 6
\* the fastest move velocity Length() is computed for
MaxSpeed == 46000

\* 1000 * cos and 1000 * sin of 0, 1, ..., 31 rotate steps (0 to 1.55 rad)
Cos == <<1000, 999, 995, 989, 980, 969, 955, 939, 921, 900, 878, 853, 825,
         796, 765, 732, 697, 660, 622, 582, 540, 498, 454, 408, 362, 315,
         267, 219, 170, 121, 71, 21>>
Sin == <<0, 50, 100, 149, 199, 247, 296, 343, 389, 435, 479, 523, 565, 605,
         644, 682, 717, 751, 783, 813, 841, 867, 891, 913, 932, 949, 964,
         976, 985, 993, 997, 1000>>
\* the steepest pitch of the tables
MaxPitch == Len(Cos) - 1

\* a ray that hit nothing: intersectObjects(...)[0] is undefined
NoHit == [distance |-> -1, tilt |-> 0]

\* new PlayerControls(player, ground): the player's rotation is 0, the move
\* velocity is (0, 0, -1) scaled to the move speed
NewControls ==
    [startGame |-> FALSE, isGrounded |-> FALSE, groundFirstImpact |-> TRUE,
     moveVelocity |-> [y |-> 0, z |-> -MoveSpeed],
     verticalAcceleration |-> 0, pitch |-> 0,
     position |-> [x |-> 0, y |-> 0, z |-> 0], ticks |-> 0]

\* no update() of the controls has run
NoTick ==
    [started |-> FALSE, keys |-> {}, down |-> NoHit, diagonal |-> NoHit,
     forward |-> NoHit, up |-> NoHit, pre |-> NewControls,
     origin |-> 0, global |-> 0, descend |-> 0, teleported |-> FALSE]

\* TerrainGenerator: lengths are in world units

\* const minRangeZ = 450
MinRangeZ == 450
\* const rangeZ = 80
RangeZ == 80
\* const rangeY = 40
RangeY == 40
\* const maxKeyPoints = 20
MaxKeyPoints == 20
\* const segmentWidth = 2
SegmentWidth == 2
\* the window of the sample lookup: yFloor - 6 < zFloor && zFloor < yFloor + 6
Tolerance == 6
\* the plane has length * 0.05 rows of faces: one row every 20 units
RowLength == 20
\* Array(10): the texture slots
TextureSlots == 10
\* generateTerrain calls explored on one generator
MaxTerrains == 1
\* Math.random() is a multiple of 1 / RandomScale, from 0 to 1 - 1 / RandomScale
RandomScale == 1000

\* no `new TerrainGenerator(...)` yet.  clouds and terrainModels are the
\* numbers of models in the two arrays, a texture is a positive number and 0
\* is undefined; given holds the constructor's arguments, thrown the function
\* the last generateTerrain call threw in
NoGenerator ==
    [status |-> "none",
     given |-> [islandTextures |-> <<>>, clouds |-> 0, terrainModels |-> 0],
     islandTextures |-> <<>>, clouds |-> 0, terrainModels |-> 0,
     islandNumber |-> -1, map |-> 0, keyPoints |-> <<>>, curvePoints |-> <<>>,
     terrainLength |-> 0, heights |-> <<>>, assets |-> 0, cloudGroup |-> 0,
     vertices |-> 0, assetIdxs |-> <<>>, thrown |-> "none", calls |-> 0]

\* the class fields #terrainObjects, #cloudObjects, #enemyObjects,
\* #powerupObjects, #scoreObjects
DefaultTerrainObjects == 40
DefaultCloudObjects == 50
DefaultEnemyObjects == 10
DefaultPowerupObjects == 6
DefaultScoreObjects == 25

Defaults ==
    [terrainObjects |-> DefaultTerrainObjects,
     cloudObjects |-> DefaultCloudObjects,
     enemyObjects |-> DefaultEnemyObjects,
     scoreObjects |-> DefaultScoreObjects,
     powerupObjects |-> DefaultPowerupObjects]

\* a settings argument is a record of some of the five attributes (an
\* attribute it does not have reads as undefined); Undefined is the argument
\* that was not passed
Undefined == [undefined |-> TRUE]

\* settings.<attribute> ?? this.#<attribute>
Coalesce(given, attribute) ==
    IF attribute \in DOMAIN given THEN given[attribute] ELSE Defaults[attribute]

\* constructor 228-234: reading an attribute of undefined throws a TypeError,
\* and the fields keep their defaults
NewSettings(given) ==
    IF given = Undefined
    THEN [terrainObjects |-> Defaults.terrainObjects,
          cloudObjects |-> Defaults.cloudObjects,
          enemyObjects |-> Defaults.enemyObjects,
          scoreObjects |-> Defaults.scoreObjects,
          powerupObjects |-> Defaults.powerupObjects,
          given |-> given, thrown |-> TRUE]
    ELSE [terrainObjects |-> Coalesce(given, "terrainObjects"),
          cloudObjects |-> Coalesce(given, "cloudObjects"),
          enemyObjects |-> Coalesce(given, "enemyObjects"),
          scoreObjects |-> Coalesce(given, "scoreObjects"),
          powerupObjects |-> Coalesce(given, "powerupObjects"),
          given |-> given, thrown |-> FALSE]

(* The state after `new GameManager(player, generator, ..., settings)`; when *)
(* the constructor throws there is no manager and no island, and nothing    *)
(* runs                                                                     *)
InitOf(play) ==
    \E given \in play.settings, l0 \in play.lengths, l1 \in play.lengths :
     \E s \in {NewSettings(given)} :
      \E kinds \in KindChoices(s, play.kinds) :
        LET c == Place(generateTerrain(0, s.terrainObjects, s.cloudObjects,
                                       0, l0), FirstStart)
            n == Place(generateTerrain(0 + 1, s.terrainObjects + AssetStep,
                                       s.cloudObjects, 1, l1),
                       c.end - IslandGap)
            none == generateTerrain(0, 0, 0, -1, 0)
        IN /\ settings = s
           /\ player = [z |-> 0, y |-> 0]
           /\ gameOver = FALSE
           /\ score = 0
           /\ invisible = FALSE
           /\ invisibleTimeoutId = 0
           /\ smallerEnemies = FALSE
           /\ smallerEnemiesTimeoutIds = <<>>
           /\ islandNumber = 0
           /\ playerIsland = 0
           /\ terrainObjects = s.terrainObjects
           /\ nextIsland = IF s.thrown THEN none ELSE n
           /\ currentIsland =
                 IF s.thrown THEN none
                 ELSE populateIslandObjects(s, c, 0, kinds)
           /\ islandGroup = IF s.thrown THEN {} ELSE {0, 1}
           /\ world = [bodies |-> IF s.thrown THEN {} ELSE {0, 1},
                       gravity |-> "on"]
           /\ timers = <<>>
           /\ nextTimerId = 1
           /\ generated = IF s.thrown THEN 0 ELSE 2
           /\ turn = IF s.thrown THEN "none" ELSE "controls"
           /\ last = NoStep
           /\ controls = NewControls
           /\ tick = NoTick
           /\ generator = NoGenerator

----------------------------------------------------------------------------
(* The host's timers *)

\* setTimeout(callback, ms): a pending callback.  `what` is "invisible" (the
\* callback of line 506) or "restore" (lines 528, 534, for the entity `target`)
Timer(id, what, target, ms) ==
    [id |-> id, what |-> what, target |-> target, remaining |-> ms]

\* the identity of a cloned model: its island, its group, its rank and its name
Key(e) == [seg |-> e.seg, grp |-> e.grp, n |-> e.n, kind |-> e.kind]
NoTarget == [seg |-> -1, grp |-> "", n |-> 0, kind |-> ""]

\* clearTimeout(id): the pending callback with that handle, if any, is dropped
clearTimeout(ts, id) == SelectSeq(ts, LAMBDA t : t.id # id)

RECURSIVE clearAll(_, _)
\* ids.forEach(id => clearTimeout(id))
clearAll(ts, ids) ==
    IF ids = <<>> THEN ts ELSE clearAll(clearTimeout(ts, Head(ids)), Tail(ids))

----------------------------------------------------------------------------
(* update() works on the fields below; g is the manager during one call, *)
(* and g.player the body of the player it holds in #player              *)

Manager ==
    [player |-> player,
     score |-> score, gameOver |-> gameOver, invisible |-> invisible,
     invisibleTimeoutId |-> invisibleTimeoutId,
     smallerEnemies |-> smallerEnemies, ids |-> smallerEnemiesTimeoutIds,
     timers |-> timers, nextTimerId |-> nextTimerId,
     cur |-> currentIsland, gravity |-> world.gravity,
     collect |-> 0, impact |-> 0, gameover |-> 0, dispatched |-> <<>>]

\* the end of the game also puts the player back at height 0
GameOverEffectsReset(g) ==
    [g EXCEPT !.gameover = @ + 1, !.gravity = "zero", !.player.y = 0]

\* #gameOver(): the screen is shown, the game-over cue plays, gravity is zeroed
GameOverEffects(g) ==
    [g EXCEPT !.gameover = @ + 1, !.gravity = "zero"]

\* #collisionWith, 'Score Object'
CollideScore(g) == [g EXCEPT !.score = @ + 1, !.collect = @ + 1]

\* the decrement without its floor
CollideEnemyUnfloored(g) == [g EXCEPT !.impact = @ + 1, !.score = @ - 1]

\* the impact cue left out when the score is already 0
CollideEnemySilent(g) ==
    IF g.score <= 0 THEN g ELSE [g EXCEPT !.impact = @ + 1, !.score = @ - 1]

\* #collisionWith, 'Enemy'
CollideEnemy(g) ==
    LET h == [g EXCEPT !.impact = @ + 1]
    IN IF h.score <= 0 THEN h ELSE [h EXCEPT !.score = @ - 1]

\* #collisionWith, 'Cloud'
CollideCloud(g) == GameOverEffects([g EXCEPT !.gameOver = TRUE])

\* #collisionWith, 'Pink'
CollidePink(g) == [g EXCEPT !.score = @ * 2]

\* the earlier expiry is left pending
ClearInvisibleMissing(g) == g

\* #collisionWith, 'Blue', line 504: the pending expiry is cleared
ClearInvisible(g) ==
    IF g.invisible /\ g.invisibleTimeoutId # 0
    THEN [g EXCEPT !.timers = clearTimeout(@, g.invisibleTimeoutId)]
    ELSE g

\* #collisionWith, 'Blue'
CollideBlue(g) ==
    LET h == ClearInvisible(g)
    IN [h EXCEPT !.invisible = TRUE,
                 !.invisibleTimeoutId = h.nextTimerId,
                 !.timers = Append(@, Timer(h.nextTimerId, "invisible",
                                            NoTarget, InvisibleMs)),
                 !.nextTimerId = @ + 1]

\* the earlier restores are left pending
ClearSmallerMissing(g) == g

\* #collisionWith, 'Green', line 522: the pending restores are cleared
ClearSmaller(g) ==
    IF g.smallerEnemies /\ Len(g.ids) > 0
    THEN [g EXCEPT !.timers = clearAll(@, g.ids)]
    ELSE g

RECURSIVE RestoreTimers(_, _, _)
\* the setTimeout calls of one forEach of lines 526-535 over `es`
RestoreTimers(es, id, acc) ==
    IF es = <<>> THEN acc
    ELSE RestoreTimers(Tail(es), id + 1,
                       Append(acc, Timer(id, "restore", Key(Head(es)), ShrinkMs)))

\* the handles those calls returned
TimerIds(ts) == [i \in 1..Len(ts) |-> ts[i].id]

\* #collisionWith, 'Green': enemies and clouds of the current island shrink
\* and a restore is scheduled for each; line 538 pushes the function (which
\* clearTimeout reads as the handle 0) and the number 6000
CollideGreen(g) ==
    LET h == ClearSmaller(g)
        enemies == SelectSeq(h.cur.objects, LAMBDA e : e.kind = "Enemy")
        clouds == h.cur.clouds
        made == RestoreTimers(enemies \o clouds, h.nextTimerId, <<>>)
    IN [h EXCEPT
          !.smallerEnemies = TRUE,
          !.cur.objects = [i \in 1..Len(@) |->
                             IF @[i].kind = "Enemy"
                             THEN [@[i] EXCEPT !.scale = EnemySmall] ELSE @[i]],
          !.cur.clouds = [i \in 1..Len(@) |-> [@[i] EXCEPT !.scale = CloudSmall]],
          !.timers = @ \o made,
          !.nextTimerId = @ + Len(made),
          !.ids = @ \o TimerIds(made) \o <<0, StrayHandle>>]

\* #collisionWith(object): the typed effect, chosen by the object's name
collisionWith(g, kind) ==
    CASE kind = "Score Object" -> CollideScore(g)
      [] kind = "Enemy" -> CollideEnemy(g)
      [] kind = "Cloud" -> CollideCloud(g)
      [] kind = "Pink" -> CollidePink(g)
      [] kind = "Blue" -> CollideBlue(g)
      [] kind = "Green" -> CollideGreen(g)
      [] OTHER -> g

\* the object stays in its group
RemoveObjectMissing(g, k) == g

\* update 670: objectsGroup.remove(object)
RemoveObject(g, k) ==
    [g EXCEPT !.cur.objects = SelectSeq(@, LAMBDA e : Key(e) # k)]

\* the clouds tested before the objects
TestedObjectsCloudsFirst(g) ==
    IF ~g.invisible THEN g.cur.clouds \o g.cur.objects ELSE g.cur.objects

\* update 650-652: the objects tested in this update
TestedObjects(g) ==
    IF ~g.invisible THEN g.cur.objects \o g.cur.clouds ELSE g.cur.objects

\* update 659: an enemy is skipped while the player is invisible
Skipped(g, object) == g.invisible /\ object.kind = "Enemy"

RECURSIVE CollisionsLive(_, _, _)
\* the loop run over the group's own children: removing a collided object
\* moves the next one into its place, and the loop steps over it
CollisionsLive(g, objects, hits) ==
    IF objects = <<>> THEN g
    ELSE LET object == Head(objects)
             k == Key(object)
         IN IF Skipped(g, object) \/ k \notin hits
            THEN CollisionsLive(g, Tail(objects), hits)
            ELSE LET removed == IF object.kind # "Cloud"
                                THEN RemoveObject(g, k) ELSE g
                     h == collisionWith(removed, object.kind)
                     rest == IF object.kind # "Cloud" /\ Len(objects) > 1
                             THEN Tail(Tail(objects)) ELSE Tail(objects)
                 IN CollisionsLive([h EXCEPT !.dispatched = Append(@, k)],
                                   rest, hits)

RECURSIVE Collisions(_, _, _)
\* update 655-674: the loop over the tested objects; hits are the objects
\* whose box intersects the player's when they are tested
Collisions(g, objects, hits) ==
    IF objects = <<>> THEN g
    ELSE LET object == Head(objects)
             k == Key(object)
         IN IF Skipped(g, object) \/ k \notin hits
            THEN Collisions(g, Tail(objects), hits)
            ELSE LET removed == IF object.kind # "Cloud"
                                THEN RemoveObject(g, k) ELSE g
                     h == collisionWith(removed, object.kind)
                 IN Collisions([h EXCEPT !.dispatched = Append(@, k)],
                               Tail(objects), hits)


----------------------------------------------------------------------------
(* Removal of the objects the player has passed *)

\* update 690-699: object.children.forEach(child => ... child.removeFromParent()):
\* each removal shifts the array under the iteration, so every second child
\* is visited; the number of children left of n
ChildrenLeft(n) == n \div 2

\* update 683: the world z of the island's centre
terrainCenter(island) == island.start - island.length \div 2

\* update 689: the player has passed the object
Passed(object, island, z) == object.y + terrainCenter(island) > z + Trailing

\* update 686-701 over the children of one group
DisposeGroup(es, island, z) ==
    [i \in 1..Len(es) |->
        IF Passed(es[i], island, z)
        THEN [es[i] EXCEPT !.children = ChildrenLeft(@)] ELSE es[i]]

\* update 676-701
DisposePassed(island, z) ==
    [island EXCEPT !.objects = DisposeGroup(@, island, z),
                   !.clouds = DisposeGroup(@, island, z),
                   !.assets = DisposeGroup(@, island, z)]

----------------------------------------------------------------------------
(* The sliding window *)

\* #updatePlayerIsland 606: the player is between the island's end and start
Inside(island, z) == island.end < z /\ z < island.start

\* the comparison of line 611 without its 400
PastNoLookahead(island, z) == z < island.end

\* the comparison of line 611 with the 400 on the other side
PastEarly(island, z) == z - Lookahead < island.end

\* #updatePlayerIsland 611: the player is past the island
Past(island, z) == z + Lookahead < island.end

\* the comparison of line 611 made against the island's start
AdvancesWrongBound(island, z) == z + Lookahead < island.start

\* #updatePlayerIsland 606-611: the window advances in this update
Advances(island, z) == ~Inside(island, z) /\ Past(island, z)

\* #updatePlayerIsland 614
NextTerrainObjects(amount, number) ==
    amount + clamp(AssetStep * number, 0, AssetStepMax)

\* #generateNewIsland 570: the number the following island is generated for
FollowingNumber(number) == number + 1

\* the entities of a group whose child meshes were not all disposed
Undisposed(es) == {i \in 1..Len(es) : es[i].children > 0}

\* #generateNewIsland 555-566: the retired island's geometry and material are
\* disposed; its children are the three groups, none of them a mesh, so
\* child.clear() detaches their entities and disposes nothing; mesh.clear()
\* detaches the groups
Retire(island) ==
    [id |-> island.id, mesh |-> "disposed", attached |-> 0,
     undisposed |-> Cardinality(Undisposed(island.objects))
                      + Cardinality(Undisposed(island.clouds))
                      + Cardinality(Undisposed(island.assets))]

\* the retired island is left where it was
RemoveIslandKept(ids, id) == ids

\* #generateNewIsland 552-553: the retired island's mesh leaves the island
\* group, its body the world
RemoveIsland(ids, id) == ids \ {id}

\* #generateNewIsland 584-585: the new island's mesh and body are added
AddIsland(ids, id) == ids \cup {id}

\* #generateNewIsland 568-576: the island generated after `cur`
NewIsland(cur, number, amount, id, length) ==
    Place(generateTerrain(FollowingNumber(number), amount,
                          settings.cloudObjects, id, length),
          cur.end - IslandGap)

\* the objects that can touch the player's box at z: they still have a child
\* mesh (Box3.setFromObject of a childless group is empty) and are within
\* HitRange
Candidates(island, z) ==
    {Key(e) : e \in
        {o \in {island.objects[i] : i \in 1..Len(island.objects)}
                 \cup {island.clouds[i] : i \in 1..Len(island.clouds)} :
            /\ o.children > 0
            /\ o.y + terrainCenter(island) - z <= HitRange
            /\ z - (o.y + terrainCenter(island)) <= HitRange}}

HitSets(cand, k) ==
    IF k = 0 THEN {{}} ELSE {h \in SUBSET cand : Cardinality(h) <= k}

\* what Math.random draws when an island is generated and populated
GenChoices(play, advance) ==
    IF advance
    THEN [length : play.lengths, kinds : KindChoices(settings, play.kinds)]
    ELSE {[length |-> 0, kinds |-> <<>>]}

\* the fall is noticed twice as deep
FallenDeeper(y) == y < 2 * FallLimit

\* update 626: the player has fallen out of the map
Fallen(y) == y < FallLimit

(* GameManager.update() *)
Update(play) ==
    LET z == player.z
        running == ~gameOver /\ ~Fallen(player.y)
        advance == running /\ Advances(currentIsland, z)
    IN
    /\ turn = "manager"
    /\ advance => generated - 2 < play.maxAdvances
    /\ \E gen \in GenChoices(play, advance) :
        LET number == IF advance THEN nextIsland.name ELSE islandNumber
            amount == IF advance THEN NextTerrainObjects(terrainObjects, number)
                      ELSE terrainObjects
        IN
        \* (singleton sets: each value is computed once)
        \E cur \in {IF advance
                    THEN populateIslandObjects(settings, nextIsland, number,
                                               gen.kinds)
                    ELSE currentIsland},
           nxt \in {IF advance
                    THEN NewIsland(nextIsland, number, amount, generated,
                                   gen.length)
                    ELSE nextIsland} :
         \E hits \in HitSets(IF running THEN Candidates(cur, z) ELSE {},
                             play.maxHits) :
          \E g1 \in {LET g0 == [Manager EXCEPT !.cur = cur]
                      IN IF gameOver THEN g0
                         ELSE IF Fallen(player.y)
                              THEN GameOverEffects([g0 EXCEPT !.gameOver = TRUE])
                              ELSE Collisions(g0, TestedObjects(g0), hits)} :
            LET cur1 == IF running THEN DisposePassed(g1.cur, z) ELSE g1.cur
            IN /\ gameOver' = g1.gameOver
               /\ score' = g1.score
               /\ invisible' = g1.invisible
               /\ invisibleTimeoutId' = g1.invisibleTimeoutId
               /\ smallerEnemies' = g1.smallerEnemies
               /\ smallerEnemiesTimeoutIds' = g1.ids
               /\ timers' = g1.timers
               /\ nextTimerId' = g1.nextTimerId
               /\ currentIsland' = cur1
               /\ nextIsland' = nxt
               /\ islandNumber' = number
               /\ playerIsland' =
                     IF running /\ Inside(currentIsland, z) THEN currentIsland.name
                     ELSE IF advance THEN nextIsland.name ELSE playerIsland
               /\ terrainObjects' = amount
               /\ islandGroup' =
                     IF advance
                     THEN AddIsland(RemoveIsland(islandGroup, currentIsland.id),
                                    nxt.id)
                     ELSE islandGroup
               /\ world' = [bodies |->
                              IF advance
                              THEN AddIsland(RemoveIsland(world.bodies,
                                                          currentIsland.id),
                                             nxt.id)
                              ELSE world.bodies,
                            gravity |-> g1.gravity]
               /\ generated' = IF advance THEN generated + 1 ELSE generated
               /\ last' = [op |-> "update", advanced |-> advance, hits |-> hits,
                           dispatched |-> g1.dispatched, collect |-> g1.collect,
                           impact |-> g1.impact, gameover |-> g1.gameover,
                           retired |-> IF advance THEN Retire(currentIsland)
                                       ELSE NoRetired,
                           pre |-> [score |-> score, invisible |-> invisible,
                                    gameOver |-> gameOver,
                                    pending |->
                                       Cardinality({i \in 1..Len(timers) :
                                          timers[i].what = "restore"})]]
               /\ turn' = "controls"
               /\ player' = g1.player
               /\ UNCHANGED <<settings, controls, tick, generator>>

\* the frame's time passes for every pending callback
Elapse(ts) ==
    [i \in 1..Len(ts) |-> [ts[i] EXCEPT !.remaining = Max(@ - TickMs, 0)]]

(* A frame begins: TickMs have passed and PlayerControls.update() moves the *)
(* player forward (towards -z) and to some height; the player stands at its *)
(* spawn point until the controls have started.  A callback that is due     *)
(* runs before the next frame, and update() sees every position: the player *)
(* does not move on from a position past the current island that update()   *)
(* could not handle                                                         *)
MovePlayer(play) ==
    /\ turn = "controls"
    /\ ~Past(currentIsland, player.z)
    /\ \A i \in 1..Len(timers) : timers[i].remaining > 0
    /\ \E d \in play.steps \cup (IF player.z = 0 THEN {0} ELSE {}),
          y \in play.heights :
            player' = [z |-> player.z - d, y |-> y]
    /\ timers' = Elapse(timers)
    /\ turn' = "manager"
    /\ last' = [NoStep EXCEPT !.op = "move"]
    /\ UNCHANGED <<settings, gameOver, score, invisible, invisibleTimeoutId,
                   smallerEnemies, smallerEnemiesTimeoutIds, islandNumber,
                   playerIsland, terrainObjects, currentIsland, nextIsland,
                   islandGroup, world, nextTimerId, generated, controls, tick,
                   generator>>

\* enemy.scale.set(0.05, ...) / cloud.scale.set(0.2, ...) on the object a
\* restore callback closed over; an object that is in no group of the
\* current island any more is not part of the state
Restore(island, target) ==
    LET fix(es, scale) ==
            [i \in 1..Len(es) |->
                IF Key(es[i]) = target THEN [es[i] EXCEPT !.scale = scale]
                ELSE es[i]]
    IN [island EXCEPT !.objects = fix(@, EnemyScale),
                      !.clouds = fix(@, CloudScale)]

(* The oldest due callback runs, between two frames or between the two *)
(* updates of one                                                      *)
Fire ==
    /\ timers # <<>>
    /\ \E i \in 1..Len(timers) :
        /\ timers[i].remaining = 0
        /\ \A j \in 1..(i - 1) : timers[j].remaining > 0
        /\ LET t == timers[i]
           IN /\ timers' = SelectSeq(timers, LAMBDA u : u.id # t.id)
              /\ IF t.what = "invisible"
                 THEN /\ invisible' = FALSE
                      /\ invisibleTimeoutId' = 0
                      /\ UNCHANGED currentIsland
                 ELSE /\ currentIsland' = Restore(currentIsland, t.target)
                      /\ UNCHANGED <<invisible, invisibleTimeoutId>>
    /\ last' = [NoStep EXCEPT !.op = "fire"]
    /\ UNCHANGED <<settings, player, gameOver, score, smallerEnemies,
                   smallerEnemiesTimeoutIds, islandNumber, playerIsland,
                   terrainObjects, nextIsland, islandGroup, world, nextTimerId,
                   generated, turn, controls, tick, generator>>

----------------------------------------------------------------------------
(* PlayerControls *)

Abs(n) == IF n < 0 THEN -n ELSE n

\* Math.sign
Sign(n) == IF n < 0 THEN -1 ELSE IF n > 0 THEN 1 ELSE 0

RECURSIVE SqrtIn(_, _, _)
\* the largest r in lo..hi with r * r <= n
SqrtIn(n, lo, hi) ==
    IF lo >= hi THEN lo
    ELSE LET mid == (lo + hi + 1) \div 2
         IN IF mid * mid <= n THEN SqrtIn(n, mid, hi) ELSE SqrtIn(n, lo, mid - 1)

\* Vector3.length() of the move velocity (its x is always 0)
Length(v) == SqrtIn(v.y * v.y + v.z * v.z, 0, MaxSpeed)

\* #playerWeight = #playerMass * #gravity
playerWeight == PlayerMass * Gravity

\* new Vector3(0, 0, -1).applyQuaternion(player.quaternion), normalized and
\* multiplied by the speed: the quaternion is a rotation by `pitch` about x
Heading(pitch, speed) ==
    [y |-> Sign(pitch) * ((speed * Sin[Abs(pitch) + 1]) \div 1000),
     z |-> -((speed * Cos[Abs(pitch) + 1]) \div 1000)]

\* Quaternion.rotateTowards(q, step) between two rotations about x
rotateTowards(pitch, target, step) ==
    IF Abs(target - pitch) <= step THEN target
    ELSE pitch + Sign(target - pitch) * step

\* #rotatePlayerOnAir: Math.sign(v.y) * Math.acos(forward . v / |v|), in whole
\* rotate steps
AirAngle(v) ==
    Sign(v.y) * (CHOOSE k \in 0..MaxPitch :
                    /\ Sin[k + 1] * Abs(v.z) <= Cos[k + 1] * Abs(v.y)
                    /\ \A j \in (k + 1)..MaxPitch :
                          Sin[j + 1] * Abs(v.z) > Cos[j + 1] * Abs(v.y))

\* filter(intersect => intersect !== undefined).sort((a, b) => a.distance -
\* b.distance)[0]: the nearest hit of a list of ray results, NoHit if none
Nearest(intersects) ==
    LET hits == SelectSeq(intersects, LAMBDA h : h # NoHit)
    IN IF hits = <<>> THEN NoHit
       ELSE hits[CHOOSE i \in 1..Len(hits) :
                    /\ \A j \in 1..Len(hits) : hits[i].distance <= hits[j].distance
                    /\ \A j \in 1..(i - 1) : hits[j].distance > hits[i].distance]

\* intersects.slice(0, intersects.length - 1): all rays except the up one
Bounded(intersects) == SubSeq(intersects, 1, Len(intersects) - 1)

\* the game runs only while enter is held
StartWhileHeld(c, keys) == [c EXCEPT !.startGame = "enter" \in keys]

\* update 1038-1040: enter starts the game
Start(c, keys) == [c EXCEPT !.startGame = @ \/ "enter" \in keys]

\* update 1043-1044: the player moves by its velocity
Integrate(c, dt) ==
    [c EXCEPT !.position.y = @ + (c.moveVelocity.y * dt) \div 1000
                               + (c.verticalAcceleration * dt) \div 2000,
              !.position.z = @ + (c.moveVelocity.z * dt) \div 1000,
              !.ticks = @ + 1]

\* update 1047: the least forward velocity is the move speed
FloorSpeed(c) ==
    IF Abs(c.moveVelocity.z) < MoveSpeed
    THEN [c EXCEPT !.moveVelocity.z = Sign(@) * MoveSpeed] ELSE c

\* #applyGlobalGravity
applyGlobalGravity(c, dt) ==
    [c EXCEPT !.verticalAcceleration = playerWeight,
              !.moveVelocity.y = @ + (playerWeight * dt) \div 1000]

\* #applyGravity, called while space is pressed
applyGravity(c, dt) ==
    IF c.isGrounded THEN c
    ELSE [c EXCEPT !.verticalAcceleration = playerWeight * DescendFactor,
                   !.moveVelocity.y =
                       @ + (playerWeight * DescendFactor * dt) \div 1000]

\* #movePlayerHorizontally, called while a or d is pressed
movePlayerHorizontally(c, keys, dt) ==
    LET step == ((Length(c.moveVelocity) \div StrafeDivisor) * dt) \div 1000
    IN IF "a" \in keys THEN [c EXCEPT !.position.x = @ - step]
       ELSE IF "d" \in keys THEN [c EXCEPT !.position.x = @ + step]
       ELSE c

\* the grounded test made on all four rays
GroundedAnyRay(intersects) ==
    /\ Nearest(intersects) # NoHit
    /\ Nearest(intersects).distance <= GroundedMargin + PlayerRadius

\* update 1074-1076: the nearest hit of the three bounded rays is within
\* 1 + #playerRadius (undefined <= n is false)
Grounded(intersects) ==
    /\ Nearest(Bounded(intersects)) # NoHit
    /\ Nearest(Bounded(intersects)).distance <= GroundedMargin + PlayerRadius

\* the rotate step used on every ground contact
GroundStepSmooth(c) == RotateStep

\* #rotatePlayerOnGround 938: 100 rad on the first ground impact
GroundStep(c) == IF c.groundFirstImpact THEN ImpactStep ELSE RotateStep

\* #rotatePlayerOnGround: the nearest hit is taken among all the rays (the
\* list is not sliced); its `tilt` is Math.sign(normal.z) * Math.acos(...)
rotatePlayerOnGround(c, intersects) ==
    LET moveAngle == Nearest(intersects).tilt
        turned == rotateTowards(c.pitch, moveAngle, GroundStep(c))
    IN [c EXCEPT !.groundFirstImpact = FALSE,
                 !.pitch = turned,
                 !.moveVelocity = Heading(turned, Length(c.moveVelocity))]

\* #clampPlayerToGround
clampPlayerToGround(c, intersects) ==
    LET intersect == Nearest(Bounded(intersects))
    IN IF intersect.distance <= PlayerRadius
       THEN [c EXCEPT !.position.y = @ + Abs(PlayerRadius - intersect.distance)]
       ELSE c

\* #rotatePlayerOnAir
rotatePlayerOnAir(c) ==
    LET turned == rotateTowards(c.pitch, AirAngle(c.moveVelocity), RotateStep)
    IN [c EXCEPT !.groundFirstImpact = TRUE,
                 !.pitch = turned,
                 !.moveVelocity = Heading(turned, Length(c.moveVelocity))]

\* the reset made only when no bounded ray hit
FellThroughUnsupported(intersects) ==
    intersects[4] # NoHit /\ Nearest(Bounded(intersects)) = NoHit

\* update 1096: intersects[3] !== undefined, the up ray hit
FellThrough(intersects) == intersects[4] # NoHit

\* update 1096: the player is put on the up ray's hit point, which is the
\* ray's origin raised by the hit's distance
Teleport(c, intersects, origin) ==
    IF FellThrough(intersects)
    THEN [c EXCEPT !.position.y = origin + intersects[4].distance + PlayerRadius]
    ELSE c

\* the keys held and the ray results of the ticks explored
Fly == [maxTicks |-> MaxTicks,
        keys |-> {{}, {"enter"}, {"enter", " "}, {" "}, {"a"}, {"d"}},
        dt |-> {DeltaTimeMs},
        down |-> {NoHit,
                  [distance |-> PlayerRadius - Sunk, tilt |-> Slope],
                  [distance |-> PlayerRadius + GroundedMargin, tilt |-> 0],
                  [distance |-> PlayerRadius + GroundedMargin + 1,
                   tilt |-> Slope]},
        diagonal |-> {NoHit,
                      [distance |-> PlayerRadius + GroundedMargin,
                       tilt |-> -Slope]},
        forward |-> {NoHit, [distance |-> PlayerRadius + RayFar, tilt |-> Slope]},
        up |-> {NoHit, [distance |-> Sunk, tilt |-> 0]}]

(* PlayerControls.update(deltaTime) *)
ControlsUpdate(fly) ==
    /\ controls.ticks < fly.maxTicks
    /\ \E keys \in fly.keys, dt \in fly.dt, down \in fly.down,
          diagonal \in fly.diagonal, forward \in fly.forward, up \in fly.up :
        \* (singleton sets: each value is computed once)
        \E intersects \in {<<down, diagonal, forward, up>>},
           c0 \in {Start(controls, keys)} :
         \E c1 \in {FloorSpeed(Integrate(c0, dt))} :
         \E c2 \in {applyGlobalGravity(c1, dt)} :
         \E c3 \in {IF " " \in keys THEN applyGravity(c2, dt) ELSE c2} :
         \E c4 \in {IF keys \cap {"a", "d"} # {}
                    THEN movePlayerHorizontally(c3, keys, dt) ELSE c3} :
         \E c5 \in {[c4 EXCEPT !.isGrounded = Grounded(intersects)]} :
         \E c6 \in {IF c5.isGrounded
                    THEN clampPlayerToGround(
                             rotatePlayerOnGround(c5, intersects), intersects)
                    ELSE rotatePlayerOnAir(c5)} :
           IF ~c0.startGame
           THEN /\ controls' = c0
                /\ tick' = [NoTick EXCEPT !.keys = keys, !.pre = controls]
           ELSE /\ Length(c3.moveVelocity) < MaxSpeed
                /\ controls' = Teleport(c6, intersects, c4.position.y)
                /\ tick' = [started |-> TRUE, keys |-> keys, down |-> down,
                            diagonal |-> diagonal, forward |-> forward,
                            up |-> up, pre |-> controls,
                            origin |-> c4.position.y,
                            global |-> c2.moveVelocity.y - c1.moveVelocity.y,
                            descend |-> c3.moveVelocity.y - c2.moveVelocity.y,
                            teleported |-> FellThrough(intersects)]
    /\ UNCHANGED <<settings, player, gameOver, score, invisible,
                   invisibleTimeoutId, smallerEnemies, smallerEnemiesTimeoutIds,
                   islandNumber, playerIsland, terrainObjects, currentIsland,
                   nextIsland, islandGroup, world, timers, nextTimerId,
                   generated, turn, last, generator>>

----------------------------------------------------------------------------
(* TerrainGenerator *)

\* the slots past the textures received are left undefined
TextureSlotUnfilled(islandTextures, idx) ==
    IF idx >= Len(islandTextures) THEN 0 ELSE islandTextures[idx + 1]

\* constructor 468-471: the texture of slot idx (0..9) of the ten
TextureSlot(islandTextures, idx) ==
    IF idx >= Len(islandTextures)
    THEN islandTextures[(idx % Len(islandTextures)) + 1]
    ELSE islandTextures[idx + 1]

\* new TerrainGenerator(islandTextures, clouds, terrainModels)
NewGenerator(islandTextures, clouds, terrainModels) ==
    LET given == [islandTextures |-> islandTextures, clouds |-> clouds,
                  terrainModels |-> terrainModels]
    IN IF Len(islandTextures) = 0
       THEN [NoGenerator EXCEPT !.status = "thrown", !.given = given]
       ELSE [NoGenerator EXCEPT
                !.status = "ready", !.given = given,
                !.islandTextures =
                    [k \in 1..TextureSlots |-> TextureSlot(islandTextures, k - 1)],
                !.clouds = clouds, !.terrainModels = terrainModels]

\* the sign is not flipped
NextSignKept(sign) == sign

\* sign *= -1
NextSign(sign) == -sign

\* #generateIslandStart 590-599: the loop over the key points; draws.z[k] and
\* draws.y[k] are Math.random() * rangeZ and Math.random() * rangeY of the
\* k-th pass
RECURSIVE keyPointsFrom(_, _, _, _, _, _, _)
keyPointsFrom(i, z, y, sign, keyPoints, minRangeY, draws) ==
    IF i >= MaxKeyPoints THEN keyPoints
    ELSE LET z1 == z + MinRangeZ + draws.z[i + 1]
             y1 == y + sign * minRangeY + draws.y[i + 1]
         IN keyPointsFrom(i + 1, z1, y1, NextSign(sign),
                          Append(keyPoints,
                                 [y |-> y1, z |-> IF i = 0 THEN 0 ELSE z1]),
                          minRangeY, draws)

\* the two key points alone, without the samples between them
curveBetweenEnds(point0, point1) == <<point0.z, point1.z>>

\* #generateIslandStart 609-627: the z of the samples between two key points
\* (j = 0 .. horizontalSegments); a sample's height is y_mid + amplitude *
\* cos(j * delta_theta) and is not part of the model
curveBetween(point0, point1) ==
    LET horizontalSegments == (point1.z - point0.z) \div SegmentWidth
    IN [j \in 1..(horizontalSegments + 1) |->
           point0.z + ((j - 1) * (point1.z - point0.z)) \div horizontalSegments]

\* #generateIslandStart 608-628: the samples of all pairs, in order
RECURSIVE curvePointsFrom(_, _)
curvePointsFrom(keyPoints, i) ==
    IF i >= Len(keyPoints) THEN <<>>
    ELSE curveBetween(keyPoints[i], keyPoints[i + 1])
            \o curvePointsFrom(keyPoints, i + 1)

\* #generateIslandStart 637
TerrainLength(curvePoints) == curvePoints[Len(curvePoints)] - curvePoints[1]

\* PlaneBufferGeometry(width, length, 1, length * 0.05): the rows of faces
Rows(length) == length \div RowLength

\* #generateIslandStart 646-654: getY(i) + firstVertexY for the vertices of a
\* row; the first row is at length / 2, the last at -length / 2
yFloor(row, length) == length - (row * length) \div Rows(length)

\* #generateIslandStart 652-657: the index of the sample curvePoints.find
\* returns for a vertex, the first in the array within the window; 0 when
\* there is none (undefined)
Find(curvePoints, target) ==
    LET hits == {k \in 1..Len(curvePoints) :
                    \/ curvePoints[k] = target
                    \/ /\ target - Tolerance < curvePoints[k]
                       /\ curvePoints[k] < target + Tolerance}
    IN IF hits = {} THEN 0
       ELSE CHOOSE k \in hits : \A m \in hits : k <= m

\* #generateIslandStart 645-660: the sample each row of vertices takes its
\* height from
Remap(curvePoints, length) ==
    [row \in 0..Rows(length) |-> Find(curvePoints, yFloor(row, length))]

\* PlaneBufferGeometry(width, length, 1, rows): getAttribute('position').count,
\* two vertices on each of the rows + 1 lines
VertexCount(length) == 2 * (Rows(length) + 1)

\* #generateTerrainAssets 740: Math.round(Math.random() * (islandEndIndex - 2))
\* + 2, for the draw Math.random() = draw / RandomScale
randomVertexIdx(draw, islandEndIndex) ==
    (2 * draw * (islandEndIndex - 2) + RandomScale) \div (2 * RandomScale) + 2

\* #generateTerrainAssets 735-740: the vertex each asset is put on
AssetVertices(vertexDraws, vertices) ==
    [k \in 1..Len(vertexDraws) |-> randomVertexIdx(vertexDraws[k], vertices - 1)]

\* generateTerrain 502
ClampLevel(number) ==
    IF number < 0 THEN 0
    ELSE IF number > MaxIslandName THEN MaxIslandName ELSE number

\* generateTerrain 500-569 on generator g, with the key points, samples and
\* vertex heights of #generateIslandStart and the vertex drawn for each asset:
\* the first statement that throws ends the call (curveValue.y of an
\* undefined curveValue, .clone() of an undefined model)
Generated(g, number, vegetationAmount, cloudAmount, keyPoints, curvePoints, heights, vertexDraws) ==
    LET level == ClampLevel(number)
        g1 == [g EXCEPT !.islandNumber = level,
                        !.map = g.islandTextures[level + 1],
                        !.keyPoints = keyPoints,
                        !.curvePoints = curvePoints,
                        !.terrainLength = TerrainLength(curvePoints),
                        !.heights = heights,
                        !.vertices = VertexCount(TerrainLength(curvePoints)),
                        !.assetIdxs = <<>>,
                        !.assets = 0, !.cloudGroup = 0,
                        !.calls = g.calls + 1]
    IN IF \E row \in DOMAIN heights : heights[row] = 0
       THEN [g1 EXCEPT !.thrown = "#generateIslandStart"]
       ELSE IF vegetationAmount > 0 /\ g.terrainModels = 0
       THEN [g1 EXCEPT !.thrown = "#generateTerrainAssets"]
       ELSE LET g2 == [g1 EXCEPT !.assets = vegetationAmount,
                                 !.assetIdxs =
                                    AssetVertices(vertexDraws, g1.vertices)]
            IN IF cloudAmount > 0 /\ g.clouds = 0
               THEN [g2 EXCEPT !.thrown = "#generateClouds"]
               ELSE [g2 EXCEPT !.thrown = "none", !.cloudGroup = cloudAmount]

\* what Math.random draws along the key points of a terrain (jitter of the z
\* steps, below 80, and of the y steps, below 40)
Draws ==
    [z : {[k \in 1..MaxKeyPoints |-> 0],
          [k \in 1..MaxKeyPoints |-> (RangeZ \div 4) * (k % 4)],
          [k \in 1..MaxKeyPoints |-> IF k % 2 = 0 THEN RangeZ - 1 ELSE 1]},
     y : {[k \in 1..MaxKeyPoints |-> 0],
          [k \in 1..MaxKeyPoints |-> IF k % 2 = 0 THEN RangeY - 1 ELSE 0]}]

\* what the generator is constructed with and asked for in the model
Terrain ==
    [textures |-> {[k \in 1..n |-> k] : n \in {0, 3, 11}},
     models |-> {0, 1}, levels |-> {0, 12}, amounts |-> {0, 2},
     draws |-> Draws, vertexDraws |-> {0, RandomScale \div 2, RandomScale - 1},
     maxTerrains |-> MaxTerrains]

(* new TerrainGenerator(islandTextures, clouds, terrainModels) *)
Construct(t) ==
    /\ generator.status = "none"
    /\ \E islandTextures \in t.textures, clouds \in t.models,
          terrainModels \in t.models :
            generator' = NewGenerator(islandTextures, clouds, terrainModels)
    /\ UNCHANGED <<settings, player, gameOver, score, invisible,
                   invisibleTimeoutId, smallerEnemies, smallerEnemiesTimeoutIds,
                   islandNumber, playerIsland, terrainObjects, currentIsland,
                   nextIsland, islandGroup, world, timers, nextTimerId,
                   generated, turn, last, controls, tick>>

(* generateTerrain(islandNumber, vegetationAmount, cloudAmount) *)
GenerateTerrain(t) ==
    /\ generator.status = "ready"
    /\ generator.calls < t.maxTerrains
    /\ \E dz \in {d.z : d \in t.draws} :
        \* (singleton sets: the samples and the heights depend on the z draws
        \* only, and are computed once for each)
        \E curvePoints \in
              {curvePointsFrom(keyPointsFrom(0, 0, 0, 1, <<>>, 0,
                                             [z |-> dz, y |-> dz]), 1)} :
         \E heights \in {Remap(curvePoints, TerrainLength(curvePoints))} :
          \E draws \in {d \in t.draws : d.z = dz},
             number \in t.levels,
             vegetationAmount \in t.amounts, cloudAmount \in t.amounts :
            \E vertexDraws \in [1..vegetationAmount -> t.vertexDraws] :
               generator' =
                  Generated(generator, number, vegetationAmount,
                            cloudAmount,
                            keyPointsFrom(0, 0, 0, 1, <<>>,
                                AmplitudeBase
                                  + AmplitudeStep * ClampLevel(number),
                                draws),
                            curvePoints, heights, vertexDraws)
    /\ UNCHANGED <<settings, player, gameOver, score, invisible,
                   invisibleTimeoutId, smallerEnemies, smallerEnemiesTimeoutIds,
                   islandNumber, playerIsland, terrainObjects, currentIsland,
                   nextIsland, islandGroup, world, timers, nextTimerId,
                   generated, turn, last, controls, tick>>

Init == InitOf(Play)

Next ==
    \/ Update(Play)
    \/ MovePlayer(Play)
    \/ Fire

Spec == Init /\ [][Next]_vars

InitStream == InitOf(StreamPlay)

NextStream ==
    \/ Update(StreamPlay)
    \/ MovePlayer(StreamPlay)

(* The same game when the player touches nothing: many window advances *)
SpecStream == InitStream /\ [][NextStream]_vars

InitControls == InitOf(FlyPlay)

NextControls == ControlsUpdate(Fly)

(* The controls alone, whatever the keys and the rays *)
SpecControls == InitControls /\ [][NextControls]_vars

\* the settings arguments a game is constructed with: none, an empty one,
\* some attributes, all of them
NewSettingsChoices ==
    {Undefined,
     [attribute \in {} |-> 0],
     [cloudObjects |-> 1],
     [terrainObjects |-> 1, enemyObjects |-> 1],
     [scoreObjects |-> 2, powerupObjects |-> 2, cloudObjects |-> 1],
     [terrainObjects |-> 1, cloudObjects |-> 1, enemyObjects |-> 1,
      scoreObjects |-> 2, powerupObjects |-> 2]}
NewPlay == [StreamPlay EXCEPT !.maxAdvances = 1, !.lengths = {10200},
                              !.settings = NewSettingsChoices]

InitNew == InitOf(NewPlay)

NextNew ==
    \/ Update(NewPlay)
    \/ MovePlayer(NewPlay)

(* The constructor with every kind of settings argument, and the first *)
(* island of the game it starts                                       *)
SpecNew == InitNew /\ [][NextNew]_vars

\* a game with few objects, and one update of the controls on the first frame
FramePlay == [Play EXCEPT !.maxHits = 1, !.kinds = {"Blue", "Green"}]
FrameFly == [Fly EXCEPT !.maxTicks = 1, !.keys = {{"enter"}},
                        !.down = {NoHit, [distance |-> PlayerRadius - Sunk,
                                          tilt |-> Slope]},
                        !.diagonal = {NoHit}, !.forward = {NoHit}]

InitFrame == InitOf(FramePlay)

NextFrame ==
    \/ Update(FramePlay)
    \/ MovePlayer(FramePlay)
    \/ Fire
    \/ ControlsUpdate(FrameFly)

(* The frame callback with both updates: PlayerControls.update and the game *)
(* manager's update, and the timer callbacks between frames                *)
SpecFrame == InitFrame /\ [][NextFrame]_vars

\* a game whose powerups are all Green, the last of them near the end of the
\* island, and a player fast enough to leave the island within 6 s of it
ShrinkSettings ==
    {[terrainObjects |-> 1, cloudObjects |-> 1, enemyObjects |-> 1,
      scoreObjects |-> 2, powerupObjects |-> 5]}
ShrinkPlay == [Play EXCEPT !.maxHits = 1, !.steps = {4000}, !.heights = {0},
                           !.kinds = {"Green"}, !.settings = ShrinkSettings]

InitShrink == InitOf(ShrinkPlay)

NextShrink ==
    \/ Update(ShrinkPlay)
    \/ MovePlayer(ShrinkPlay)
    \/ Fire

(* The game with Green pickups along the whole island, across a window *)
(* advance                                                             *)
SpecShrink == InitShrink /\ [][NextShrink]_vars

InitTerrain == InitOf(FlyPlay)

NextTerrain ==
    \/ Construct(Terrain)
    \/ GenerateTerrain(Terrain)

(* The terrain generator alone: its construction and the terrains it makes *)
SpecTerrain == InitTerrain /\ [][NextTerrain]_vars


----------------------------------------------------------------------------
(* Properties *)

\* a step of update(): the frame callback was at the manager's update
UpdateStep == turn = "manager" /\ turn' = "controls"

Keys(es) == {Key(es[i]) : i \in 1..Len(es)}
Dispatched(kind) == {i \in 1..Len(last.dispatched) : last.dispatched[i].kind = kind}
InvisibleTimers == {i \in 1..Len(timers) : timers[i].what = "invisible"}
RestoreCallbacks == {i \in 1..Len(timers) : timers[i].what = "restore"}

\* C1: the index of the next island is the index of the current island plus
\* one, in every state after construction and any number of updates.
C1_NextIndex == nextIsland.name = currentIsland.name + 1

\* C2: exactly two islands are resident: the island group holds exactly the
\* meshes of current and next, the world exactly their two bodies, and so no
\* retired island is in either.
C2_TwoResident ==
    /\ currentIsland.id # nextIsland.id
    /\ islandGroup = {currentIsland.id, nextIsland.id}
    /\ world.bodies = {currentIsland.id, nextIsland.id}
    /\ \A id \in 0..(generated - 1) :
          id < currentIsland.id => id \notin islandGroup \cup world.bodies

\* the window has advanced twice
C2_Witness == last.op = "update" /\ last.advanced /\ generated >= 4

\* C3: on the update in which player.z + 400 < current.end, the indices of
\* current and next each grow by exactly one, exactly one island is generated,
\* and the previous next island becomes current with its start and end.
C3_AdvanceByOne ==
    [][(UpdateStep /\ player.z + Lookahead < currentIsland.end) =>
         /\ currentIsland'.name = currentIsland.name + 1
         /\ nextIsland'.name = nextIsland.name + 1
         /\ generated' = generated + 1
         /\ currentIsland'.id = nextIsland.id
         /\ currentIsland'.start = nextIsland.start
         /\ currentIsland'.end = nextIsland.end]_vars

\* C4: while current.end < player.z < current.start, update() generates no
\* island, retires none, repopulates nothing, and leaves current, next, the
\* progression level and the vegetation count as they are.
C4_NoStreamingInside ==
    [][(UpdateStep /\ currentIsland.end < player.z
                   /\ player.z < currentIsland.start) =>
         /\ generated' = generated
         /\ nextIsland' = nextIsland
         /\ currentIsland'.id = currentIsland.id
         /\ currentIsland'.name = currentIsland.name
         /\ currentIsland'.start = currentIsland.start
         /\ currentIsland'.end = currentIsland.end
         /\ Keys(currentIsland'.objects) \subseteq Keys(currentIsland.objects)
         /\ islandGroup' = islandGroup
         /\ world'.bodies = world.bodies
         /\ islandNumber' = islandNumber
         /\ playerIsland' = playerIsland
         /\ terrainObjects' = terrainObjects]_vars

\* an update has run with the player inside the current island
C4_Witness ==
    /\ last.op = "update" /\ ~last.pre.gameOver /\ player.y >= FallLimit
    /\ currentIsland.end < player.z /\ player.z < currentIsland.start
    /\ player.z < 0

C6_ShrinkWindow ==
    /\ \A i, j \in RestoreCallbacks : timers[i].remaining = timers[j].remaining
    /\ \A i \in 1..Len(currentIsland.objects) :
          LET e == currentIsland.objects[i]
              pending == \E t \in RestoreCallbacks : timers[t].target = Key(e)
          IN e.kind = "Enemy" =>
                e.scale = IF pending THEN EnemySmall ELSE EnemyScale
    /\ \A i \in 1..Len(currentIsland.clouds) :
          LET e == currentIsland.clouds[i]
              pending == \E t \in RestoreCallbacks : timers[t].target = Key(e)
          IN e.scale = IF pending THEN CloudSmall ELSE CloudScale
    /\ (last.op = "update" /\ Dispatched("Green") # {}) =>
          /\ \A t \in RestoreCallbacks : timers[t].remaining = ShrinkMs
          /\ \A i \in 1..Len(currentIsland.clouds) :
                currentIsland.clouds[i].scale = CloudSmall
          /\ \A i \in 1..Len(currentIsland.objects) :
                currentIsland.objects[i].kind = "Enemy" =>
                    currentIsland.objects[i].scale = EnemySmall

\* Green was picked up while restores of an earlier pickup were pending, with
\* an enemy on the island
C6_Witness ==
    /\ last.op = "update" /\ Dispatched("Green") # {} /\ last.pre.pending > 0
    /\ \E i \in 1..Len(currentIsland.objects) :
          currentIsland.objects[i].kind = "Enemy"

\* C7: no cloud or enemy is dispatched while the invulnerability flag is true,
\* also when the flag was set earlier in the same update.
C7_Invulnerable ==
    last.op = "update" =>
        \A i \in 1..Len(last.dispatched) :
            last.dispatched[i].kind \in {"Cloud", "Enemy"} =>
                /\ ~last.pre.invisible
                /\ \A j \in 1..(i - 1) : last.dispatched[j].kind # "Blue"

\* C8: once gameOver is true it stays true, an update() that starts with it
\* changes nothing, and in the update that sets it nothing that changes the
\* score is dispatched after the cloud.
C8_Terminal ==
    [][/\ gameOver => gameOver'
       /\ (UpdateStep /\ gameOver) =>
             /\ score' = score
             /\ currentIsland' = currentIsland
             /\ nextIsland' = nextIsland
             /\ islandNumber' = islandNumber
             /\ playerIsland' = playerIsland
             /\ generated' = generated
             /\ last'.dispatched = <<>>
       /\ (UpdateStep /\ ~gameOver /\ gameOver') =>
             \A i, j \in 1..Len(last'.dispatched) :
                (i < j /\ last'.dispatched[i].kind = "Cloud") =>
                    last'.dispatched[j].kind = "Cloud"]_vars

\* an update has run after the game was over
C8_Witness == gameOver /\ last.op = "update" /\ last.pre.gameOver

\* C9: the score is a non-negative integer in every reachable state.
C9_ScoreNonNegative == score \in Nat

\* an enemy was hit at score 0
C9_Witness ==
    last.op = "update" /\ Dispatched("Enemy") # {} /\ last.pre.score = 0

\* C10: each collectible the player overlaps in update() adds exactly 1 to the
\* score and plays the collect cue once, leaves the Objects group, and no object
\* ever returns to the group, so it is never dispatched again.
C10_Collectible ==
    [][/\ UpdateStep =>
            LET d == last'.dispatched
                collected == {i \in 1..Len(d) : d[i].kind = "Score Object"}
            IN /\ last'.collect = Cardinality(collected)
               /\ \A i \in collected : d[i] \notin Keys(currentIsland'.objects)
               /\ (\A i \in 1..Len(d) : i \in collected) =>
                      score' = score + Len(d)
               /\ \A i, j \in 1..Len(d) : i # j => d[i] # d[j]
               /\ \A i \in 1..Len(d) :
                      d[i].kind # "Cloud" =>
                          /\ d[i].seg = currentIsland'.id
                          /\ ~last'.advanced => d[i] \in Keys(currentIsland.objects)
       /\ currentIsland'.id = currentIsland.id =>
             Keys(currentIsland'.objects) \subseteq Keys(currentIsland.objects)]_vars

\* a collectible was picked up
C10_Witness == last.op = "update" /\ last.collect > 0

\* C11: each enemy the player overlaps while not invisible plays the impact
\* cue once and leaves the Objects group, and the score becomes
\* max(score - 1, 0) for each, also when it is 0 and stays 0.
C11_Hazard ==
    [][UpdateStep =>
          LET d == last'.dispatched
              hazards == {i \in 1..Len(d) : d[i].kind = "Enemy"}
          IN /\ last'.impact = Cardinality(hazards)
             /\ \A i \in hazards : d[i] \notin Keys(currentIsland'.objects)
             /\ hazards # {} => ~invisible
             /\ (\A i \in 1..Len(d) : i \in hazards) =>
                    score' = Max(score - Len(d), 0)]_vars

\* an enemy was hit at score 0 and the score stayed 0, the cue played
C11_Witness ==
    /\ last.op = "update" /\ last.impact > 0
    /\ \A i \in 1..Len(last.dispatched) : last.dispatched[i].kind = "Enemy"
    /\ last.pre.score = 0 /\ score = 0

\* C12: after an update() that is not game over, no entity of the current
\* island (object, cloud or terrain asset) that is more than 400 behind the
\* player is still a member of its group.
C12_PassedRemoved ==
    (last.op = "update" /\ ~gameOver) =>
        \A grp \in {currentIsland.objects, currentIsland.clouds,
                     currentIsland.assets} :
            \A i \in 1..Len(grp) :
                ~(grp[i].y + currentIsland.start - currentIsland.length \div 2
                     > player.z + Trailing)

\* C13: when the window advances, the retired island's mesh and body leave
\* the scene and the world, its geometry and material are disposed, none of
\* its entities stays attached, and the geometry and material of every entity
\* it still held are disposed.
C13_RetiredReleased ==
    (last.op = "update" /\ last.advanced) =>
        /\ last.retired.id \notin islandGroup \cup world.bodies
        /\ last.retired.mesh = "disposed"
        /\ last.retired.attached = 0
        /\ last.retired.undisposed = 0

\* the results of the three bounded rays of the last tick
BoundedRays == {tick.down, tick.diagonal, tick.forward}

\* C14: after every started tick of the controls, |velocity.z| is at least the
\* move speed and velocity.z has the sign it had before the tick.
C14_ForwardFloor ==
    tick.started =>
        /\ controls.moveVelocity.z <= -MoveSpeed
              \/ controls.moveVelocity.z >= MoveSpeed
        /\ (controls.moveVelocity.z < 0) = (tick.pre.moveVelocity.z < 0)

\* C15: after every started tick, grounded is true exactly when one of the
\* three bounded rays hit within playerRadius + 1, whatever grounded was
\* before and whatever the up ray reports.
C15_GroundedFresh ==
    tick.started =>
        (controls.isGrounded <=>
            \E h \in BoundedRays :
                h # NoHit /\ h.distance <= PlayerRadius + GroundedMargin)

\* the player was grounded, then all three bounded rays missed while the up
\* ray hit
C15_Witness ==
    /\ tick.started /\ tick.pre.isGrounded /\ BoundedRays = {NoHit}
    /\ tick.up # NoHit /\ ~controls.isGrounded

\* C16: the teleport happens on a tick exactly when the up ray hit, and then
\* the tick ends with the player's y at the hit point's y plus the radius,
\* whatever the ground clamp did.
C16_Teleport ==
    tick.started =>
        /\ tick.teleported <=> tick.up # NoHit
        /\ tick.up # NoHit =>
              controls.position.y =
                  tick.origin + tick.up.distance + PlayerRadius
        /\ (tick.up = NoHit /\ BoundedRays = {NoHit}) =>
              controls.position.y = tick.origin

\* the up ray hit on a tick whose ground clamp had raised the player
C16_Witness ==
    /\ tick.started /\ tick.up # NoHit /\ controls.isGrounded
    /\ \E h \in BoundedRays : h # NoHit /\ h.distance < PlayerRadius

\* C17: on a grounded tick after an airborne tick (or the first grounded
\* tick) the player takes the slope of a hit face at once; on a grounded tick
\* after a grounded tick and on an airborne tick the pitch changes by at most
\* the rotate step.
C17_Snap ==
    tick.started =>
        /\ (controls.isGrounded /\ ~tick.pre.isGrounded) =>
              \E h \in BoundedRays \cup {tick.up} :
                  h # NoHit /\ controls.pitch = h.tilt
        /\ ((controls.isGrounded /\ tick.pre.isGrounded)
               \/ ~controls.isGrounded) =>
              /\ controls.pitch - tick.pre.pitch <= RotateStep
              /\ tick.pre.pitch - controls.pitch <= RotateStep

\* a first ground contact turned the player by more than the rotate step
C17_Witness ==
    /\ tick.started /\ controls.isGrounded /\ ~tick.pre.isGrounded
    /\ controls.pitch - tick.pre.pitch > RotateStep

\* C18: on a tick that begins grounded neither the base gravity nor the
\* descend key changes velocity.y; on a tick that begins airborne the base
\* gravity applies and the descend key applies a steeper multiple.
C18_GravityAirborne ==
    tick.started =>
        /\ tick.pre.isGrounded => (tick.global = 0 /\ tick.descend = 0)
        /\ ~tick.pre.isGrounded =>
              /\ tick.global < 0
              /\ " " \in tick.keys => tick.descend < tick.global

\* the objects of an island whose name holds one of the kinds
OfKind(island, kinds) ==
    Cardinality({i \in 1..Len(island.objects) : island.objects[i].kind \in kinds})

\* C19: from island to island the number of enemies and the vertical
\* amplitude of the key points never decrease, the enemies are
\* clamp(base + 5 * i, base, 40) for island i and never more than 40, the
\* amplitude is 150 + 20 * i up to island 9 and never more than its value there.
C19_Difficulty ==
    [][UpdateStep =>
          /\ OfKind(currentIsland', {"Enemy"}) >= OfKind(currentIsland, {"Enemy"})
          /\ OfKind(currentIsland', {"Enemy"}) <= EnemyCeiling
          /\ OfKind(currentIsland', {"Enemy"}) =
                Min(Max(settings.enemyObjects + EnemyStep * currentIsland'.id,
                        settings.enemyObjects), EnemyCeiling)
          /\ \A pair \in {<<currentIsland, currentIsland'>>,
                          <<nextIsland, nextIsland'>>} :
                /\ pair[2].minRangeY >= pair[1].minRangeY
                /\ pair[2].minRangeY <= AmplitudeBase + AmplitudeStep * MaxIslandName
                /\ pair[2].id <= MaxIslandName =>
                      pair[2].minRangeY = AmplitudeBase + AmplitudeStep * pair[2].id
      ]_vars

\* the island after the one where the last ceiling was reached is current
C19_Witness ==
    /\ last.op = "update" /\ last.advanced
    /\ currentIsland.id = MaxIslandName + 1
    /\ OfKind(currentIsland, {"Enemy"}) = EnemyCeiling
    /\ currentIsland.minRangeY = AmplitudeBase + AmplitudeStep * MaxIslandName

\* C20: the score objects put on an island are clamp(base - 2 * level, 5,
\* base), the powerups clamp(base - floor(level / 2), 1, base); from island to
\* island neither grows, and with a base of at least the floor each stays
\* between its floor and its base.
C20_Scarcity ==
    [][UpdateStep =>
          LET level == islandNumber'
              scores == OfKind(currentIsland', {"Score Object"})
              powers == OfKind(currentIsland', {"Pink", "Blue", "Green"})
          IN /\ scores <= OfKind(currentIsland, {"Score Object"})
             /\ powers <= OfKind(currentIsland, {"Pink", "Blue", "Green"})
             /\ scores = Min(Max(settings.scoreObjects - ScoreStep * level,
                                 ScoreFloor), settings.scoreObjects)
             /\ powers = Min(Max(settings.powerupObjects - level \div 2,
                                 PowerupFloor), settings.powerupObjects)
             /\ settings.scoreObjects >= ScoreFloor =>
                   (ScoreFloor <= scores /\ scores <= settings.scoreObjects)
             /\ settings.powerupObjects >= PowerupFloor =>
                   (PowerupFloor <= powers /\ powers <= settings.powerupObjects)
      ]_vars

\* an island was populated at both floors, from bases above them
C20_Witness ==
    /\ last.op = "update" /\ last.advanced
    /\ settings.scoreObjects > ScoreFloor
    /\ settings.powerupObjects > PowerupFloor
    /\ OfKind(currentIsland, {"Score Object"}) = ScoreFloor
    /\ OfKind(currentIsland, {"Pink", "Blue", "Green"}) = PowerupFloor

\* C21: the vegetation count handed to the generator for a new island is a
\* clamped function of the level alone: two islands generated at the same
\* level get the same count, and no count exceeds the starting count by more
\* than the ceiling of the step (90), however many advances there were.
C21_VegetationClamped ==
    [][(UpdateStep /\ generated' = generated + 1) =>
          /\ islandNumber' = islandNumber =>
                Len(nextIsland'.assets) = Len(nextIsland.assets)
          /\ Len(nextIsland'.assets) <= settings.terrainObjects + AssetStepMax
      ]_vars

Placed == {currentIsland, nextIsland}

\* C23 as claimed: every island the manager has placed has length > 0 and
\* end = start - length.
C23_EndIsStartMinusLength ==
    \A island \in Placed :
        island.length > 0 /\ island.end = island.start - island.length

\* C23 amended: every island the manager has placed has length > 0 and
\* end = start - (length + 1000), the 1000 being the length of the island's
\* end.
C23_EndIsStartMinusLengthAndCap ==
    \A island \in Placed :
        /\ island.length > 0
        /\ island.end = island.start - (island.length + EndLength)

\* both islands of the window were placed by an advance
C23_Witness ==
    /\ last.op = "update" /\ last.advanced
    /\ currentIsland.id >= 2
    /\ nextIsland.start = currentIsland.end - IslandGap

\* C24: in every generated terrain the key points have strictly increasing z
\* (the first, pinned to z = 0, and the second included), consecutive
\* vertical displacements alternate in sign, and the terrain length, last
\* sample z minus first sample z, is strictly positive.
C24_KeyPoints ==
    generator.calls > 0 =>
        LET keyPoints == generator.keyPoints
            curvePoints == generator.curvePoints
        IN /\ keyPoints[1].z = 0
           /\ \A i \in 1..(Len(keyPoints) - 1) :
                 keyPoints[i + 1].z > keyPoints[i].z
           /\ \A i \in 2..(Len(keyPoints) - 1) :
                 (keyPoints[i + 1].y - keyPoints[i].y)
                    * (keyPoints[i].y - keyPoints[i - 1].y) < 0
           /\ generator.terrainLength
                 = curvePoints[Len(curvePoints)] - curvePoints[1]
           /\ generator.terrainLength > 0

\* a terrain of level 0 whose second key point took the largest draw against
\* its downward step
C24_Witness ==
    /\ generator.calls > 0
    /\ Len(generator.keyPoints) = MaxKeyPoints
    /\ generator.islandNumber = 0
    /\ generator.keyPoints[2].y - generator.keyPoints[1].y > -AmplitudeBase

C26_Textures ==
    generator.status # "none" =>
        LET input == generator.given.islandTextures
            n == Len(input)
        IN /\ n = 0 =>
                /\ generator.status = "thrown"
                /\ generator.islandTextures = <<>>
                /\ generator.clouds = 0 /\ generator.terrainModels = 0
                /\ generator.calls = 0
           /\ n > 0 =>
                /\ generator.status = "ready"
                /\ Len(generator.islandTextures) = TextureSlots
                /\ \A k \in 0..(TextureSlots - 1) :
                      generator.islandTextures[k + 1] = input[(k % n) + 1]
                /\ generator.calls > 0 =>
                      /\ generator.islandNumber \in 0..MaxIslandName
                      /\ generator.map \in {input[i] : i \in 1..n}
                      /\ generator.map = input[(generator.islandNumber % n) + 1]

\* a generator with three textures made the terrain of island 9, whose slot
\* is filled by repetition
C26_Witness ==
    /\ generator.status = "ready" /\ generator.calls > 0
    /\ Len(generator.given.islandTextures) = 3
    /\ generator.islandNumber = MaxIslandName
    /\ generator.map = generator.given.islandTextures[1]

\* C27: an empty list of cloud models or of terrain models fails at
\* construction: no generator is returned for it, and so no generateTerrain
\* call fails for a missing model.
C27_ModelsFailFast ==
    /\ generator.status = "ready" =>
          (generator.given.clouds > 0 /\ generator.given.terrainModels > 0)
    /\ generator.thrown \notin {"#generateTerrainAssets", "#generateClouds"}

\* C28: update() of the game manager, with its collision responses, its
\* window advance and its timer callbacks, never writes the player's position,
\* velocity or orientation; update() of the controls never writes the score,
\* the game-over flag, an effect flag or a timer.
C28_SingleWriter ==
    [][/\ (UpdateStep \/ (last'.op = "fire" /\ timers' # timers)) =>
             (player' = player /\ controls' = controls)
       /\ (controls' # controls \/ tick' # tick) =>
             /\ score' = score /\ gameOver' = gameOver
             /\ invisible' = invisible /\ smallerEnemies' = smallerEnemies
             /\ invisibleTimeoutId' = invisibleTimeoutId
             /\ smallerEnemiesTimeoutIds' = smallerEnemiesTimeoutIds
             /\ timers' = timers /\ nextTimerId' = nextTimerId
      ]_vars

\* the controls have ticked, and update() has ended the game of a player that
\* is still at the height it fell to
C28_Witness ==
    /\ tick.started
    /\ last.op = "update" /\ last.gameover = 1
    /\ player.y < FallLimit

\* C29: the settings argument is optional: without it, or without some of its
\* attributes, the construction succeeds, every missing attribute has its
\* default (40 terrain objects, 50 clouds, 10 enemies, 6 powerups, 25 score
\* objects) and every attribute supplied has the value supplied.
C29_SettingsOptional ==
    /\ ~settings.thrown
    /\ \A attribute \in DOMAIN Defaults :
          settings[attribute] =
             IF attribute \in DOMAIN settings.given
             THEN settings.given[attribute]
             ELSE Defaults[attribute]

\* C30: an update() of a running game that starts with the player's y below
\* -800 ends the run (gameOver is set, the game-over cue plays once, gravity
\* is zeroed), invulnerable or not, and does nothing else: no window advance,
\* no collision dispatch, no disposal.
C30_FallEndsRun ==
    [][(UpdateStep /\ ~gameOver /\ player.y < FallLimit) =>
          /\ gameOver' /\ last'.gameover = 1 /\ world'.gravity = "zero"
          /\ ~last'.advanced /\ generated' = generated
          /\ islandNumber' = islandNumber
          /\ terrainObjects' = terrainObjects
          /\ last'.dispatched = <<>>
          /\ last'.collect = 0 /\ last'.impact = 0
          /\ currentIsland' = currentIsland /\ nextIsland' = nextIsland
          /\ islandGroup' = islandGroup /\ world'.bodies = world.bodies
          /\ score' = score /\ invisible' = invisible
          /\ smallerEnemies' = smallerEnemies
          /\ timers' = timers
      ]_vars

\* an invulnerable player fell, and the update ended the run
C30_Witness ==
    /\ last.op = "update" /\ last.gameover = 1
    /\ last.pre.invisible /\ invisible
    /\ player.y < FallLimit /\ gameOver

\* C31: every vegetation asset is put on a vertex whose index lies in
\* [2, n - 3] for a mesh of n vertices, so that index - 2 and index + 2 are
\* both indices of vertices, and neither the first nor the last.
C31_VertexIndexInRange ==
    \A k \in 1..Len(generator.assetIdxs) :
        /\ 2 <= generator.assetIdxs[k]
        /\ generator.assetIdxs[k] <= generator.vertices - 3
        /\ generator.assetIdxs[k] - 2 \in 0..(generator.vertices - 1)
        /\ generator.assetIdxs[k] + 2 \in 0..(generator.vertices - 1)

\* C32: on a grounded tick the player is turned towards the slope of the
\* nearest hit among the three bounded rays (down, diagonal, forward); a hit of
\* the up ray is never the one selected, however close it is.
C32_NormalFromBoundedRays ==
    (tick.started /\ controls.isGrounded) =>
        controls.pitch =
            rotateTowards(tick.pre.pitch,
                          Nearest(<<tick.down, tick.diagonal, tick.forward>>).tilt,
                          GroundStep(tick.pre))

\* C33: after an update() of a running game, every entity of the current
\* island that is more than 400 behind the player has no child mesh left,
\* whatever number of children it had.
C33_PassedChildless ==
    (last.op = "update" /\ ~gameOver) =>
        \A grp \in {currentIsland.objects, currentIsland.clouds,
                     currentIsland.assets} :
            \A i \in 1..Len(grp) :
                Passed(grp[i], currentIsland, player.z) => grp[i].children = 0

\* C34: the shrink flag (smallerEnemies) is true exactly while a shrink window
\* is running: it is set by a Green pickup and is false again once the 6 s
\* after the most recent Green pickup have passed.  (Every island holds a
\* cloud, so the window is running exactly while a restore is pending.)
C34_ShrinkFlag == smallerEnemies <=> RestoreCallbacks # {}

\* C35: one update() advances the window at most once, and only when
\* player.z + 400 < current.end; with player.z in [current.end - 400,
\* current.end] or player.z >= current.start nothing is generated or retired;
\* and once the window has advanced it stays until the player is more than
\* 400 past the end of the new current island.
C35_AdvanceOnce ==
    [][UpdateStep =>
          LET z == player.z
              still == /\ generated' = generated
                       /\ currentIsland'.id = currentIsland.id
                       /\ nextIsland' = nextIsland
                       /\ islandGroup' = islandGroup
                       /\ world'.bodies = world.bodies
                       /\ last'.retired = NoRetired
                       /\ ~last'.advanced
          IN /\ generated' \in {generated, generated + 1}
             /\ generated' = generated + 1 =>
                   /\ z + Lookahead < currentIsland.end
                   /\ currentIsland'.id = nextIsland.id
                   /\ nextIsland'.id = generated
                   /\ last'.retired.id = currentIsland.id
             /\ (currentIsland.end - Lookahead <= z /\ z <= currentIsland.end)
                   => still
             /\ z >= currentIsland.start => still
             /\ (currentIsland.id > 0 /\ z + Lookahead >= currentIsland.end)
                   => still
      ]_vars

\* after an advance, an update has run with the player less than 400 past
\* the end of the new current island, and the window stayed
C35_Witness ==
    /\ last.op = "update" /\ ~last.advanced
    /\ currentIsland.id > 0
    /\ currentIsland.end - Lookahead <= player.z
    /\ player.z <= currentIsland.end

\* C36: the height lookup never misses: every row of vertices of a generated
\* terrain has its length coordinate in [0, length] and is given a sample
\* whose z is within the open window of 6 units around it, consecutive samples
\* being less than 6 apart; no vertex is left with an undefined height.
C36_LookupNeverMisses ==
    generator.calls > 0 =>
        LET curvePoints == generator.curvePoints
            length == generator.terrainLength
        IN /\ generator.thrown # "#generateIslandStart"
           /\ DOMAIN generator.heights = 0..Rows(length)
           /\ \A row \in DOMAIN generator.heights :
                 LET target == yFloor(row, length)
                     found == generator.heights[row]
                 IN /\ 0 <= target /\ target <= length
                    /\ found \in 1..Len(curvePoints)
                    /\ target - Tolerance < curvePoints[found]
                    /\ curvePoints[found] < target + Tolerance
           /\ \A k \in 1..(Len(curvePoints) - 1) :
                 /\ curvePoints[k] <= curvePoints[k + 1]
                 /\ curvePoints[k + 1] - curvePoints[k] < Tolerance

\* a terrain with two key points that are not a whole number of segments
\* apart was generated, and all its rows of vertices were given a height
C36_Witness ==
    /\ generator.calls > 0 /\ generator.thrown = "none"
    /\ Rows(generator.terrainLength) > 1
    /\ \E i \in 2..(MaxKeyPoints - 1) :
          (generator.keyPoints[i + 1].z - generator.keyPoints[i].z)
              % SegmentWidth # 0

\* C37: until enter has been seen pressed by an update of the controls, the
\* update changes neither the position, the velocity, the orientation nor
\* grounded; once enter has been seen the started flag stays true for ever,
\* and every later update moves the player, whatever keys are held.
C37_StartGate ==
    [][(tick' # tick \/ controls' # controls) =>
          /\ controls.startGame => controls'.startGame
          /\ controls'.startGame <=>
                (controls.startGame \/ "enter" \in tick'.keys)
          /\ ~controls'.startGame =>
                /\ ~tick'.started
                /\ controls'.position = controls.position
                /\ controls'.moveVelocity = controls.moveVelocity
                /\ controls'.verticalAcceleration = controls.verticalAcceleration
                /\ controls'.pitch = controls.pitch
                /\ controls'.isGrounded = controls.isGrounded
                /\ controls'.groundFirstImpact = controls.groundFirstImpact
          /\ controls'.startGame =>
                /\ tick'.started
                /\ controls'.ticks = controls.ticks + 1
                /\ controls'.position.z =
                      controls.position.z
                         + (controls.moveVelocity.z * DeltaTimeMs) \div 1000
                /\ controls'.position.z < controls.position.z
      ]_vars

\* the game had started, and an update with enter released and other keys
\* held has moved the player
C37_Witness ==
    /\ tick.started /\ tick.pre.startGame
    /\ "enter" \notin tick.keys /\ tick.keys # {}
    /\ controls.position.z < tick.pre.position.z

\* the objects of one kind dispatched in the last update
DispatchedOf(kinds) ==
    Cardinality({i \in 1..Len(last.dispatched) : last.dispatched[i].kind \in kinds})

\* C38: within one update() every entity that overlaps the player and is
\* tested (an enemy or a cloud is not while the player is invisible) is
\* dispatched exactly once: removing a collided entity during the loop makes
\* no other entity skipped and none dispatched twice, and each dispatch has
\* exactly the one effect of its type.
C38_DispatchOnce ==
    (last.op = "update" /\ ~last.pre.gameOver /\ player.y >= FallLimit) =>
        LET d == last.dispatched
        IN /\ \A i, j \in 1..Len(d) : i # j => d[i] # d[j]
           /\ \A i \in 1..Len(d) : d[i] \in last.hits
           /\ \A k \in last.hits :
                 (\E i \in 1..Len(d) : d[i] = k) <=>
                    ~(last.pre.invisible /\ k.kind \in {"Enemy", "Cloud"})
           /\ last.collect = DispatchedOf({"Score Object"})
           /\ last.impact = DispatchedOf({"Enemy"})
           /\ last.gameover = DispatchedOf({"Cloud"})
           /\ (\A i \in 1..Len(d) :
                  d[i].kind \in {"Score Object", "Blue", "Green", "Cloud"}) =>
                 score = last.pre.score + last.collect

\* two entities overlapped the player in one update, and the first was
\* removed from its group before the second was tested
C38_Witness ==
    /\ last.op = "update" /\ Len(last.dispatched) = 2
    /\ last.dispatched[1].kind # "Cloud"
    /\ last.dispatched[1] \notin Keys(currentIsland.objects)

\* C39: each island is populated with enemies, score objects and powerups
\* exactly once, when it becomes current (island 0 at construction, every
\* other island on the advance that promotes it), for the level equal to its
\* own index; the next island never holds any of them.
C39_PopulatedOnce ==
    [][/\ nextIsland.objects = <<>> /\ nextIsland'.objects = <<>>
       /\ currentIsland'.id = currentIsland.id =>
             Keys(currentIsland'.objects) \subseteq Keys(currentIsland.objects)
       /\ (UpdateStep /\ currentIsland'.id # currentIsland.id) =>
             LET index == currentIsland'.id
             IN /\ currentIsland'.id = nextIsland.id
                /\ islandNumber' = index
                /\ OfKind(currentIsland', {"Enemy"})
                      = EnemyCount(settings.enemyObjects, index)
                /\ OfKind(currentIsland', {"Score Object"})
                      = ScoreCount(settings.scoreObjects, index)
                /\ OfKind(currentIsland', {"Pink", "Blue", "Green"})
                      = PowerupCount(settings.powerupObjects, index)
      ]_vars

\* a shrink window is running: a restore of the most recent Green pickup is
\* pending and not yet due
ShrinkWindow == \E t \in RestoreCallbacks : timers[t].remaining > 0

\* C40: while a shrink window is running (less than 6 s after the most recent
\* Green pickup) every enemy and every cloud of the current island is at its
\* small scale, also when the window has advanced to a new current island
\* in those 6 s.
C40_ShrunkenDuringWindow ==
    ShrinkWindow =>
        /\ \A i \in 1..Len(currentIsland.objects) :
              currentIsland.objects[i].kind = "Enemy" =>
                  currentIsland.objects[i].scale = EnemySmall
        /\ \A i \in 1..Len(currentIsland.clouds) :
              currentIsland.clouds[i].scale = CloudSmall

====
